---- MODULE Spec2Model ----
(***************************************************************************)
(* A model of cdp-rs (src/src/lib.rs): the CdpConnection session engine    *)
(* (send, wait_message, wait_for, wait_event) and                          *)
(* CdpClient::make_connection.                                             *)
(*                                                                         *)
(* Two specifications share the variables:                                 *)
(*   Spec         one CdpConnection from CdpConnection::new onwards, with  *)
(*                the peer delivering messages and time passing;           *)
(*   LiveSpec     Spec with the fairness of a running thread and clock;    *)
(*   SpecConnect  one run of make_connection over a resolved address list. *)
(***************************************************************************)
EXTENDS Integers, Sequences, FiniteSets, TLC

VARIABLES
    \* ---- CdpConnection (lib.rs 169-172) and the transport under it
    pc,          \* "none" (no connection) | "idle" (between calls) | "polling" (inside wait_for)
    message_id,  \* CdpConnection.message_id
    inbox,       \* messages the socket holds, oldest first (what read_message yields)
    delivered,   \* number of messages the peer has delivered so far
    peerClosed,  \* the peer has closed the transport
    call,        \* the call in progress, or the last one: its operation, its number,
                 \* the id send awaits, the event, the timeout, how send's write ended
    elapsed,     \* Instant::now() - now, in seconds, as wait_for's loop condition reads it
    result,      \* what the call returned, NoResult while it runs
    lastRead,    \* outcome of the last read_message of the current call
    sentLog,     \* ids of the request envelopes handed to write_message, in order
    seen,        \* the messages the current call has taken from the socket, in order
    readLog,     \* every message taken from the socket: [sn, call], in order
    retLog,      \* every message returned to a caller: [sn, call], in order
    \* ---- CdpClient: connect_to_target, connect_to_tab, make_connection (lib.rs 103-151)
    cpc,         \* "entry" | "start" | "connect" | "handshake" | "established" |
                 \* "failed" (CannotConnect) | "invalid_tab" (InvalidTab) | "panicked" | "off"
    entry,       \* the public operation called and its argument: [op, index]
    tabs,        \* what get_tabs will answer: [ok, urls]
    wsUrl,       \* the url make_connection was called with, <<"", 0>> before
    tried,       \* candidates TcpStream::connect was called on, in order
    urlIn,       \* what Url::parse / socket_addrs make of the url
    addrs,       \* the candidate addresses
    net,         \* how each address behaves: TCP connect and handshake
    ci,          \* index of the candidate of the for loop
    hsCalls,     \* handshake rounds made on the current candidate
    opened,      \* candidates whose TcpStream::connect succeeded, in order
    \* ---- Drop for CdpConnection (lib.rs 291-302)
    dpc,         \* "off" | "alive" | "draining" (in the for loop) | "dropped"
    closeRes,    \* what socket.close(None) returned: "none" before, "Ok", "Err"
    drainReads   \* read_message calls drop has made

sessionVars == <<pc, message_id, inbox, delivered, peerClosed, call, elapsed, result,
                 lastRead, sentLog, seen, readLog, retLog>>
connectVars == <<cpc, entry, tabs, wsUrl, tried, urlIn, addrs, net, ci, hsCalls, opened>>
vars == <<pc, message_id, inbox, delivered, peerClosed, call, elapsed, result,
          lastRead, sentLog, seen, readLog, retLog,
          cpc, entry, tabs, wsUrl, tried, urlIn, addrs, net, ci, hsCalls, opened,
          dpc, closeRes, drainReads>>
dropVars == <<dpc, closeRes, drainReads>>

----------------------------------------------------------------------------
\* Bounds of the model

\* send calls made on the connection
MaxSends == 2
\* calls of any kind made on the connection
MaxCalls == 2
\* messages the peer delivers
MaxFrames == 2
\* calls and messages in the behaviours checked for termination (LiveSpec)
MaxLiveCalls == 2
MaxLiveFrames == 1
\* seconds the clock advances in one step
Quantum == 150
\* candidate addresses of one resolution
MaxAddrs == 3
\* Interrupted results one handshake may report before it ends
MaxInterrupts == 2
\* tabs get_tabs answers with
MaxTabs == 2

\* messages the peer delivers while the connection is dropped (SpecDrop)
MaxDropFrames == 1

\* Duration::from_secs(300), the default budget of wait_for
DefaultTimeoutSecs == 300

\* for _ in 0..100, the reads of drop
DrainBudget == 100

----------------------------------------------------------------------------
\* serde_json::Value as the engine reads it: the fields "id", "result", "error"
\* and "method". A Value that is no JSON object has none of them (Value::get and
\* Value::index give None / Null there), so NullValue stands for those too.

Value(idKind, id, hasResult, hasError, mKind, method) ==
    [idKind |-> idKind, id |-> id, result |-> hasResult, error |-> hasError,
     mKind |-> mKind, method |-> method]

\* idKind: "absent" | "i64" | "other" (a string, a float, a u64 above i64::MAX)
\* mKind:  "absent" | "string" | "other"
NullValue == Value("absent", 0, FALSE, FALSE, "absent", "")

Response(i)    == Value("i64", i, TRUE, FALSE, "absent", "")
ErrorReply(i)  == Value("i64", i, FALSE, TRUE, "absent", "")
Event(name)    == Value("absent", 0, FALSE, FALSE, "string", name)

EventNames == {"Page.loadEventFired", "Network.dataReceived"}

\* The JSON documents the peer may send
Values ==
    {Response(i) : i \in 1..MaxSends} \cup {ErrorReply(i) : i \in 1..MaxSends}
    \cup {Event(n) : n \in EventNames}
    \cup {Value("i64", 1, TRUE, TRUE, "absent", ""),        \* a result and an error
          Value("absent", 0, TRUE, FALSE, "absent", ""),    \* a result without id
          Value("other", 0, FALSE, TRUE, "absent", "")}     \* an error with a string id

\* tungstenite::Message as wait_message reads it: enc tells what into_text and
\* serde_json::from_str make of it.
\*   "Json"        text (or UTF-8 binary) holding a JSON document, val
\*   "NotJson"     text that is no JSON document (also Ping, Pong, Close payloads)
\*   "InvalidUtf8" binary data that is no UTF-8
Payloads ==
    {[enc |-> "Json", val |-> v] : v \in Values}
    \cup {[enc |-> "NotJson", val |-> NullValue], [enc |-> "InvalidUtf8", val |-> NullValue]}

\* A message on the wire: its payload and the position the peer sent it at
Msg(sn, p) == [sn |-> sn, enc |-> p.enc, val |-> p.val]
NoMsg == [sn |-> 0, enc |-> "NotJson", val |-> NullValue]

----------------------------------------------------------------------------
\* Result<Value, MessageError> (lib.rs 30-40)

Ok(v)              == [kind |-> "Ok", val |-> v, cause |-> ""]
NetworkError(e)    == [kind |-> "NetworkError", val |-> NullValue, cause |-> e]
InvalidRequest(v)  == [kind |-> "InvalidRequest", val |-> v, cause |-> ""]
InvalidResponse    == [kind |-> "InvalidResponse", val |-> NullValue, cause |-> ""]
NoMessage          == [kind |-> "NoMessage", val |-> NullValue, cause |-> ""]
\* not a MessageError: the call unwound (Option::unwrap on None)
Panicked           == [kind |-> "Panic", val |-> NullValue, cause |-> ""]
\* before any call has returned
NoResult           == [kind |-> "None", val |-> NullValue, cause |-> ""]

\* impl From<Error> for MessageError (lib.rs 41-48)
FromError(e) == IF e = "Utf8" THEN InvalidResponse ELSE NetworkError(e)

\* tungstenite errors write_message can end with (Error::Utf8 comes from decoding
\* received data only)
WriteErrors == {"Io", "AlreadyClosed"}

\* Option<Duration>
None == [some |-> FALSE, secs |-> 0]
Some(t) == [some |-> TRUE, secs |-> t]
Timeouts == {None, Some(0), Some(Quantum)}

----------------------------------------------------------------------------
\* The pure parts of CdpConnection

\* SendPred without the comparison of ids
SendPredAnyId(m, awaited) == IF m.error \/ m.result THEN "true" ELSE "false"

\* The closure send gives wait_for (lib.rs 203-206):
\*   (m.get("error").is_some() || m.get("result").is_some())
\*       && m["id"].as_i64().unwrap() == message_id
\* && evaluates its right side only when the left holds; as_i64 is None, and
\* unwrap panics, when "id" is absent or is no i64.
SendPred(m, awaited) ==
    IF ~(m.error \/ m.result) THEN "false"
    ELSE IF m.idKind # "i64" THEN "panic"
    ELSE IF m.id = awaited THEN "true" ELSE "false"

\* EventPred without the comparison of names
EventPredAnyMethod(m, event) == IF m.mKind # "absent" THEN "true" ELSE "false"

\* The closure wait_event gives wait_for (lib.rs 250-257); a Value equals a &str
\* only when it is that string.
EventPred(m, event) ==
    IF m.mKind # "absent" /\ m.mKind = "string" /\ m.method = event THEN "true" ELSE "false"

\* A closure of the caller's, the one of the documentation (lib.rs 268)
ResultPred(m) == IF m.result THEN "true" ELSE "false"

\* f(&m) for the call c
Eval(c, m) ==
    CASE c.op = "send"       -> SendPred(m, c.awaited)
      [] c.op = "wait_event" -> EventPred(m, c.event)
      [] OTHER               -> ResultPred(m)

\* send without its increment
StuckMessageId(id) == id

\* self.message_id += 1 (lib.rs 201). MaxSends keeps message_id far from i64::MAX.
NextMessageId(id) == id + 1

\* send without the ?: the outcome of the write is dropped
WriteNeverFailed(w) == FALSE

\* The ? after write_message (lib.rs 202): an Err leaves send at once
WriteFailed(w) == w # "Ok"

\* socket.read_message() on the non-blocking socket: the oldest message, or an
\* Err: Io(WouldBlock) when nothing is ready, ConnectionClosed once the peer has
\* closed and everything was read.
ReadMessage(q, closed) ==
    IF q # <<>> THEN [tag |-> "Ok", msg |-> Head(q), err |-> ""]
    ELSE [tag |-> "Err", msg |-> NoMsg,
          err |-> IF closed THEN "ConnectionClosed" ELSE "WouldBlock"]

\* A read that leaves the message in place
ReadRestPeek(q) == q

\* What the socket holds after that read_message: the message read is gone
\* (lib.rs 227); CdpConnection has no field to keep it in (lib.rs 169-172).
ReadRest(q) == IF q # <<>> THEN Tail(q) ELSE q

\* wait_message (lib.rs 226-236) on the outcome rd of read_message
wait_message(rd) ==
    IF rd.tag = "Ok"
    THEN IF rd.msg.enc = "InvalidUtf8" THEN FromError("Utf8")   \* msg.into_text()?
         ELSE IF rd.msg.enc = "NotJson" THEN InvalidResponse     \* from_str is Err
         ELSE Ok(rd.msg.val)
    ELSE NoMessage

\* The budget of wait_for (lib.rs 273-276)
Budget(timeout) == IF timeout.some THEN timeout.secs ELSE DefaultTimeoutSecs

\* The loop condition with <= for <
TimeLeftInclusive(e, budget) == e <= budget

\* The loop condition of wait_for (lib.rs 279): Instant::now() - now < timeout
TimeLeft(e, budget) == e < budget

\* One round of the match in wait_for's loop (lib.rs 281-285) on m, the result of
\* wait_message: whether wait_for leaves the loop, and with what.
WaitForArm(c, m) ==
    IF m.kind = "Ok"
    THEN CASE Eval(c, m.val) = "true"  -> [leave |-> TRUE, ret |-> m]
           [] Eval(c, m.val) = "panic" -> [leave |-> TRUE, ret |-> Panicked]
           [] OTHER                    -> [leave |-> FALSE, ret |-> NoResult]
    ELSE IF m.kind = "NoMessage" THEN [leave |-> FALSE, ret |-> NoResult]
    ELSE [leave |-> TRUE, ret |-> NoMessage]          \* break, then lib.rs 287

\* send returning what wait_for returned
SendReturnRaw(r) == r

\* The end of send (lib.rs 208-212) on the result r of its wait_for
SendReturn(r) ==
    IF r.kind = "Ok" /\ r.val.error THEN InvalidRequest(r.val) ELSE r

\* What the call c returns when its wait_for returned r
Return(c, r) == IF c.op = "send" THEN SendReturn(r) ELSE r

NoCall == [op |-> "none", no |-> 0, awaited |-> 0, event |-> "", timeout |-> None,
           write |-> "none"]

----------------------------------------------------------------------------
\* The session: one CdpConnection, its caller, its peer and the clock

dropOff == dpc = "off" /\ closeRes = "none" /\ drainReads = 0

connectOff ==
    /\ cpc = "off" /\ urlIn = "Ok" /\ addrs = <<>> /\ net = <<>>
    /\ entry = [op |-> "none", index |-> 0] /\ tabs = [ok |-> TRUE, urls |-> <<>>]
    /\ wsUrl = <<"", 0>> /\ tried = <<>>
    /\ ci = 0 /\ hsCalls = 0 /\ opened = <<>>

\* CdpConnection::new (lib.rs 174-176) on an established socket
Init ==
    /\ pc = "idle"
    /\ message_id = 1
    /\ inbox = <<>> /\ delivered = 0 /\ peerClosed = FALSE
    /\ call = NoCall /\ elapsed = 0 /\ result = NoResult /\ lastRead = "none"
    /\ sentLog = <<>> /\ seen = <<>> /\ readLog = <<>> /\ retLog = <<>>
    /\ connectOff
    /\ dropOff

\* The peer sends a message
deliver(p) ==
    /\ pc # "none" /\ ~peerClosed /\ delivered < MaxFrames
    /\ delivered' = delivered + 1
    /\ inbox' = Append(inbox, Msg(delivered + 1, p))
    /\ UNCHANGED <<pc, message_id, peerClosed, call, elapsed, result, lastRead,
                   sentLog, seen, readLog, retLog>>
    /\ UNCHANGED connectVars
    /\ UNCHANGED dropVars

\* The peer closes the transport
peer_close ==
    /\ pc # "none" /\ ~peerClosed
    /\ peerClosed' = TRUE
    /\ UNCHANGED <<pc, message_id, inbox, delivered, call, elapsed, result, lastRead,
                   sentLog, seen, readLog, retLog>>
    /\ UNCHANGED connectVars
    /\ UNCHANGED dropVars

\* Time passes while wait_for runs
tick ==
    /\ pc = "polling" /\ elapsed < Budget(call.timeout)
    /\ elapsed' = elapsed + Quantum
    /\ UNCHANGED <<pc, message_id, inbox, delivered, peerClosed, call, result, lastRead,
                   sentLog, seen, readLog, retLog>>
    /\ UNCHANGED connectVars
    /\ UNCHANGED dropVars

\* send up to its wait_for (lib.rs 188-203): the id is captured, the counter
\* advanced, the envelope written with outcome w
send(w) ==
    /\ pc = "idle" /\ call.no < MaxCalls /\ Len(sentLog) < MaxSends
    /\ call' = [op |-> "send", no |-> call.no + 1, awaited |-> message_id,
                event |-> "", timeout |-> None, write |-> w]
    /\ message_id' = NextMessageId(message_id)
    /\ sentLog' = Append(sentLog, message_id)
    /\ lastRead' = "none" /\ seen' = <<>>
    /\ IF WriteFailed(w)
       THEN /\ pc' = "idle" /\ result' = FromError(w)
       ELSE /\ pc' = "polling" /\ result' = NoResult
    /\ elapsed' = 0
    /\ UNCHANGED <<inbox, delivered, peerClosed, readLog, retLog>>
    /\ UNCHANGED connectVars
    /\ UNCHANGED dropVars

\* wait_event up to the loop of wait_for (lib.rs 249-250, 273-278)
wait_event(event, timeout) ==
    /\ pc = "idle" /\ call.no < MaxCalls
    /\ call' = [op |-> "wait_event", no |-> call.no + 1, awaited |-> 0,
                event |-> event, timeout |-> timeout, write |-> "none"]
    /\ pc' = "polling" /\ elapsed' = 0 /\ lastRead' = "none" /\ seen' = <<>>
    /\ result' = NoResult
    /\ UNCHANGED <<message_id, inbox, delivered, peerClosed, sentLog, readLog, retLog>>
    /\ UNCHANGED connectVars
    /\ UNCHANGED dropVars

\* wait_for, called with a closure of the caller's, up to its loop (lib.rs 270-278)
wait_for(timeout) ==
    /\ pc = "idle" /\ call.no < MaxCalls
    /\ call' = [op |-> "wait_for", no |-> call.no + 1, awaited |-> 0,
                event |-> "", timeout |-> timeout, write |-> "none"]
    /\ pc' = "polling" /\ elapsed' = 0 /\ lastRead' = "none" /\ seen' = <<>>
    /\ result' = NoResult
    /\ UNCHANGED <<message_id, inbox, delivered, peerClosed, sentLog, readLog, retLog>>
    /\ UNCHANGED connectVars
    /\ UNCHANGED dropVars

\* The effect of one read_message on the socket and on the logs of the call c
Read(c) ==
    LET rd == ReadMessage(inbox, peerClosed) IN
    /\ inbox' = ReadRest(inbox)
    /\ lastRead' = IF rd.tag = "Ok" THEN "Msg" ELSE rd.err
    /\ readLog' = IF rd.tag = "Ok" THEN Append(readLog, [sn |-> rd.msg.sn, call |-> c.no])
                  ELSE readLog

\* wait_message taking an id from the counter as send does
wait_message_counting ==
    /\ pc = "idle" /\ call.no < MaxCalls
    /\ LET c == [op |-> "wait_message", no |-> call.no + 1, awaited |-> 0,
                 event |-> "", timeout |-> None, write |-> "none"]
           rd == ReadMessage(inbox, peerClosed)
           m == wait_message(rd)
       IN /\ call' = c
          /\ Read(c)
          /\ seen' = IF rd.tag = "Ok" THEN <<rd.msg>> ELSE <<>>
          /\ result' = m
          /\ retLog' = IF m.kind = "Ok" THEN Append(retLog, [sn |-> rd.msg.sn, call |-> c.no])
                       ELSE retLog
    /\ elapsed' = 0
    /\ message_id' = NextMessageId(message_id)
    /\ UNCHANGED <<pc, delivered, peerClosed, sentLog>>
    /\ UNCHANGED connectVars
    /\ UNCHANGED dropVars

\* wait_message called by the caller (lib.rs 226-236)
wait_message_call ==
    /\ pc = "idle" /\ call.no < MaxCalls
    /\ LET c == [op |-> "wait_message", no |-> call.no + 1, awaited |-> 0,
                 event |-> "", timeout |-> None, write |-> "none"]
           rd == ReadMessage(inbox, peerClosed)
           m == wait_message(rd)
       IN /\ call' = c
          /\ Read(c)
          /\ seen' = IF rd.tag = "Ok" THEN <<rd.msg>> ELSE <<>>
          /\ result' = m
          /\ retLog' = IF m.kind = "Ok" THEN Append(retLog, [sn |-> rd.msg.sn, call |-> c.no])
                       ELSE retLog
    /\ elapsed' = 0
    /\ UNCHANGED <<pc, message_id, delivered, peerClosed, sentLog>>
    /\ UNCHANGED connectVars
    /\ UNCHANGED dropVars

\* wait_for finds its budget used up (lib.rs 279, 287)
poll_timeout ==
    /\ pc = "polling" /\ ~TimeLeft(elapsed, Budget(call.timeout))
    /\ pc' = "idle"
    /\ result' = Return(call, NoMessage)
    /\ UNCHANGED <<message_id, inbox, delivered, peerClosed, call, elapsed, lastRead,
                   sentLog, seen, readLog, retLog>>
    /\ UNCHANGED connectVars
    /\ UNCHANGED dropVars

\* One round of wait_for's loop (lib.rs 279-286), and what follows it when the
\* loop is left: lib.rs 287, and in send lib.rs 208-212
poll ==
    /\ pc = "polling" /\ TimeLeft(elapsed, Budget(call.timeout))
    /\ LET rd == ReadMessage(inbox, peerClosed)
           arm == WaitForArm(call, wait_message(rd))
           r == Return(call, arm.ret)
       IN /\ Read(call)
          /\ seen' = IF rd.tag = "Ok" THEN Append(seen, rd.msg) ELSE seen
          /\ IF arm.leave
             THEN /\ pc' = "idle" /\ result' = r
                  /\ retLog' = IF r.kind \in {"Ok", "InvalidRequest"}
                               THEN Append(retLog, [sn |-> rd.msg.sn, call |-> call.no])
                               ELSE retLog
             ELSE UNCHANGED <<pc, result, retLog>>
    /\ UNCHANGED <<message_id, delivered, peerClosed, call, elapsed, sentLog>>
    /\ UNCHANGED connectVars
    /\ UNCHANGED dropVars

Next ==
    \/ \E p \in Payloads : deliver(p)
    \/ peer_close
    \/ tick
    \/ \E w \in {"Ok"} \cup WriteErrors : send(w)
    \/ \E e \in EventNames, t \in Timeouts : wait_event(e, t)
    \/ \E t \in Timeouts : wait_for(t)
    \/ wait_message_call
    \/ poll_timeout
    \/ poll

Spec == Init /\ [][Next]_vars

\* The session within the smaller bounds MaxLiveCalls and MaxLiveFrames
NextLive ==
    \/ \E p \in Payloads : delivered < MaxLiveFrames /\ deliver(p)
    \/ peer_close
    \/ tick
    \/ \E w \in {"Ok"} \cup WriteErrors : call.no < MaxLiveCalls /\ send(w)
    \/ \E e \in EventNames, t \in Timeouts : call.no < MaxLiveCalls /\ wait_event(e, t)
    \/ \E t \in Timeouts : call.no < MaxLiveCalls /\ wait_for(t)
    \/ call.no < MaxLiveCalls /\ wait_message_call
    \/ poll_timeout
    \/ poll

\* The calling thread runs (the socket is non-blocking, lib.rs 136, so a round of
\* wait_for's loop never waits) and the clock advances
LiveSpec ==
    Init /\ [][NextLive]_vars /\ WF_vars(poll) /\ WF_vars(poll_timeout) /\ WF_vars(tick)

----------------------------------------------------------------------------
\* CdpClient::make_connection (lib.rs 128-151)

\* A SocketAddr: <<family, host>>, family 4 or 6
AddrUniverse == {<<4, 1>>, <<4, 2>>, <<6, 1>>}

\* Ord of SocketAddr: V4 before V6, then by address
AddrLess(a, b) == a[1] < b[1] \/ (a[1] = b[1] /\ a[2] < b[2])

\* addrs.sort() (lib.rs 132), a stable sort
RECURSIVE Insert(_, _)
Insert(a, sorted) ==
    IF sorted = <<>> THEN <<a>>
    ELSE IF AddrLess(a, Head(sorted)) THEN <<a>> \o sorted
    ELSE <<Head(sorted)>> \o Insert(a, Tail(sorted))

\* The candidates left in the resolver's order
UnsortedAddrs(q) == q

RECURSIVE SortAddrs(_)
SortAddrs(q) ==
    IF q = <<>> THEN <<>> ELSE Insert(q[Len(q)], SortAddrs(SubSeq(q, 1, Len(q) - 1)))

\* How the network answers at one address: whether TcpStream::connect succeeds,
\* how many handshake rounds report Interrupted, and how the handshake ends
Behaviours ==
    {[tcp |-> FALSE, interrupts |-> 0, hs |-> "Failure"]}
    \cup [tcp : {TRUE}, interrupts : 0..MaxInterrupts, hs : {"Ok", "Failure"}]

\* The result of the k-th handshake round, client(..) being the first and
\* mid.handshake() the later ones (lib.rs 138, 143)
HandshakeResult(b, k) == IF k <= b.interrupts THEN "Interrupted" ELSE b.hs

\* The match taking Interrupted for a failure
MatchArmInterruptFails(res) ==
    CASE res = "Ok" -> "return_connection"
      [] OTHER      -> "return_CannotConnect"

\* The match on the handshake result (lib.rs 140-144): what make_connection does
MatchArm(res) ==
    CASE res = "Ok"      -> "return_connection"
      [] res = "Failure" -> "return_CannotConnect"
      [] OTHER           -> "resume"

\* Sequences over S of length at most n
SeqsUpTo(S, n) == UNION {[1..k -> S] : k \in 0..n}

sessionOff ==
    /\ pc = "none" /\ message_id = 0
    /\ inbox = <<>> /\ delivered = 0 /\ peerClosed = FALSE
    /\ call = NoCall /\ elapsed = 0 /\ result = NoResult /\ lastRead = "none"
    /\ sentLog = <<>> /\ seen = <<>> /\ readLog = <<>> /\ retLog = <<>>

\* The webSocketDebuggerUrl of the k-th tab of the browser; the tabs have
\* different ones
TabUrl(k) == <<"ws://localhost:9222/devtools/page/", k>>

\* The url connect_to_target formats (lib.rs 104)
TargetUrl == <<"ws://localhost:9222/devtools/page/", 0>>

\* What get_tabs (lib.rs 82-86) may answer: an Err of reqwest, or the tabs
TabsAnswers ==
    {[ok |-> FALSE, urls |-> <<>>]}
    \cup {[ok |-> TRUE, urls |-> [k \in 1..n |-> TabUrl(k)]] : n \in 0..MaxTabs}

\* The calls of the caller: connect_to_target, or connect_to_tab(index)
Entries ==
    {[op |-> "connect_to_target", index |-> 0]}
    \cup {[op |-> "connect_to_tab", index |-> i] : i \in 0..MaxTabs}

\* tabs.get(tab_index) off by one
TabLookupFromOne(urls, i) ==
    IF i >= 1 /\ i <= Len(urls) THEN [some |-> TRUE, url |-> urls[i]]
    ELSE [some |-> FALSE, url |-> <<"", 0>>]

\* tabs.get(tab_index) (lib.rs 120): the index counts from 0
TabLookup(urls, i) ==
    IF i < Len(urls) THEN [some |-> TRUE, url |-> urls[i + 1]]
    ELSE [some |-> FALSE, url |-> <<"", 0>>]

\* connect_to_tab reaches make_connection
ReachesMake(e, t) ==
    e.op = "connect_to_target" \/ (t.ok /\ TabLookup(t.urls, e.index).some)

\* A public operation is called; urlIn and addrs hold what Url::parse and the
\* resolver will answer for the url given to make_connection (addrs in the
\* resolver's order), net how the network answers
InitConnect ==
    /\ sessionOff
    /\ dropOff
    /\ cpc = "entry"
    /\ entry \in Entries
    /\ tabs \in (IF entry.op = "connect_to_tab" THEN TabsAnswers
                 ELSE {[ok |-> TRUE, urls |-> <<>>]})
    /\ wsUrl = <<"", 0>> /\ tried = <<>>
    /\ urlIn \in (IF ReachesMake(entry, tabs) THEN {"Ok", "ParseError", "ResolveError"}
                  ELSE {"Ok"})
    /\ addrs \in (IF ReachesMake(entry, tabs) /\ urlIn = "Ok"
                  THEN SeqsUpTo(AddrUniverse, MaxAddrs) ELSE {<<>>})
    /\ net \in (IF ReachesMake(entry, tabs) /\ urlIn = "Ok"
                THEN [AddrUniverse -> Behaviours]
                ELSE {[a \in AddrUniverse |-> [tcp |-> FALSE, interrupts |-> 0, hs |-> "Failure"]]})
    /\ ci = 0 /\ hsCalls = 0 /\ opened = <<>>

\* connect_to_target (lib.rs 103-106)
connect_to_target ==
    /\ cpc = "entry" /\ entry.op = "connect_to_target"
    /\ cpc' = "start" /\ wsUrl' = TargetUrl
    /\ UNCHANGED <<entry, tabs, tried, urlIn, addrs, net, ci, hsCalls, opened>>
    /\ UNCHANGED sessionVars
    /\ UNCHANGED dropVars

\* connect_to_tab (lib.rs 118-126); the ? turns an Err of get_tabs into
\* CannotConnect (lib.rs 24-28)
connect_to_tab ==
    /\ cpc = "entry" /\ entry.op = "connect_to_tab"
    /\ IF ~tabs.ok THEN cpc' = "failed" /\ UNCHANGED wsUrl
       ELSE LET tab == TabLookup(tabs.urls, entry.index) IN
            IF tab.some THEN cpc' = "start" /\ wsUrl' = tab.url
            ELSE cpc' = "invalid_tab" /\ UNCHANGED wsUrl
    /\ UNCHANGED <<entry, tabs, tried, urlIn, addrs, net, ci, hsCalls, opened>>
    /\ UNCHANGED sessionVars
    /\ UNCHANGED dropVars

\* Url::parse(..).unwrap(), socket_addrs(..).unwrap(), addrs.sort() (lib.rs 129-132)
mc_resolve ==
    /\ cpc = "start"
    /\ IF urlIn = "Ok"
       THEN /\ cpc' = "connect" /\ addrs' = SortAddrs(addrs) /\ ci' = 1
       ELSE /\ cpc' = "panicked" /\ UNCHANGED <<addrs, ci>>
    /\ UNCHANGED <<entry, tabs, wsUrl, tried, urlIn, net, hsCalls, opened>>
    /\ UNCHANGED sessionVars
    /\ UNCHANGED dropVars

\* The for loop takes the next candidate (lib.rs 134-138), or ends (lib.rs 150)
mc_connect ==
    /\ cpc = "connect"
    /\ IF ci > Len(addrs)
       THEN /\ cpc' = "failed" /\ UNCHANGED <<ci, hsCalls, opened, tried>>
       ELSE /\ tried' = Append(tried, addrs[ci])
            /\ IF net[addrs[ci]].tcp
               THEN /\ cpc' = "handshake" /\ hsCalls' = 1 /\ opened' = Append(opened, ci)
                    /\ UNCHANGED ci
               ELSE /\ ci' = ci + 1 /\ UNCHANGED <<cpc, hsCalls, opened>>
    /\ UNCHANGED <<entry, tabs, wsUrl, urlIn, addrs, net>>
    /\ UNCHANGED sessionVars
    /\ UNCHANGED dropVars

\* One round of the loop over the handshake result (lib.rs 139-145);
\* CdpConnection::new (lib.rs 174-176) on success
mc_handshake ==
    /\ cpc = "handshake"
    /\ LET arm == MatchArm(HandshakeResult(net[addrs[ci]], hsCalls)) IN
       CASE arm = "return_connection" ->
              /\ cpc' = "established" /\ pc' = "idle" /\ message_id' = 1
              /\ UNCHANGED hsCalls
         [] arm = "return_CannotConnect" ->
              /\ cpc' = "failed" /\ UNCHANGED <<pc, message_id, hsCalls>>
         [] OTHER ->
              /\ hsCalls' = hsCalls + 1 /\ UNCHANGED <<cpc, pc, message_id>>
    /\ UNCHANGED <<entry, tabs, wsUrl, tried, urlIn, addrs, net, ci, opened>>
    /\ UNCHANGED <<inbox, delivered, peerClosed, call, elapsed, result, lastRead,
                   sentLog, seen, readLog, retLog>>
    /\ UNCHANGED dropVars

NextConnect ==
    connect_to_target \/ connect_to_tab \/ mc_resolve \/ mc_connect \/ mc_handshake

SpecConnect == InitConnect /\ [][NextConnect]_vars

----------------------------------------------------------------------------
\* Drop for CdpConnection (lib.rs 291-302)

\* The errors read_message reports once the connection is closed
ClosedErrors == {"ConnectionClosed", "AlreadyClosed"}

\* close(None).is_ok() taken for true
CloseAlwaysOk(res) == TRUE

\* socket.close(None).is_ok() (lib.rs 293)
CloseOk(res) == res = "Ok"

\* The matches! naming AlreadyClosed alone
DrainStopsAlreadyClosed(outcome) == outcome = "AlreadyClosed"

\* matches!(.., Err(Error::ConnectionClosed) | Err(Error::AlreadyClosed)) (lib.rs 296)
DrainStops(outcome) == outcome \in ClosedErrors

\* The for loop goes on (lib.rs 295)
DrainLeft(n) == n < DrainBudget

\* A connection between two calls, about to be dropped
InitDrop ==
    /\ pc = "idle"
    /\ message_id = 1
    /\ inbox = <<>> /\ delivered = 0 /\ peerClosed = FALSE
    /\ call = NoCall /\ elapsed = 0 /\ result = NoResult /\ lastRead = "none"
    /\ sentLog = <<>> /\ seen = <<>> /\ readLog = <<>> /\ retLog = <<>>
    /\ connectOff
    /\ dpc = "alive" /\ closeRes = "none" /\ drainReads = 0

\* drop up to its loop (lib.rs 292-294): the close frame is sent, or not
drop_close(res) ==
    /\ dpc = "alive" /\ pc = "idle"
    /\ closeRes' = res
    /\ IF CloseOk(res) THEN dpc' = "draining" /\ UNCHANGED pc
       ELSE dpc' = "dropped" /\ pc' = "none"
    /\ UNCHANGED <<message_id, inbox, delivered, peerClosed, call, elapsed, result,
                   lastRead, sentLog, seen, readLog, retLog, drainReads>>
    /\ UNCHANGED connectVars

\* One round of drop's loop (lib.rs 295-299); e is the error a read reports on
\* the closed connection
drop_read(e) ==
    /\ dpc = "draining" /\ DrainLeft(drainReads)
    /\ LET rd == ReadMessage(inbox, peerClosed)
           outcome == IF rd.tag = "Ok" THEN "Msg"
                      ELSE IF rd.err = "WouldBlock" THEN "WouldBlock" ELSE e
       IN /\ inbox' = ReadRest(inbox)
          /\ lastRead' = outcome
          /\ drainReads' = drainReads + 1
          /\ IF DrainStops(outcome) THEN dpc' = "dropped" /\ pc' = "none"
             ELSE UNCHANGED <<dpc, pc>>
    /\ UNCHANGED <<message_id, delivered, peerClosed, call, elapsed, result,
                   sentLog, seen, readLog, retLog, closeRes>>
    /\ UNCHANGED connectVars

\* The loop ends after its last round (lib.rs 295, 301)
drop_end ==
    /\ dpc = "draining" /\ ~DrainLeft(drainReads)
    /\ dpc' = "dropped" /\ pc' = "none"
    /\ UNCHANGED <<message_id, inbox, delivered, peerClosed, call, elapsed, result,
                   lastRead, sentLog, seen, readLog, retLog, closeRes, drainReads>>
    /\ UNCHANGED connectVars

\* A read on a connection the peer has left reports it closed, or the
\* transport's own error when the peer left without a close frame
drop_round == \E e \in ClosedErrors \cup {"Io"} : drop_read(e)

NextDrop ==
    \/ \E p \in Payloads : delivered < MaxDropFrames /\ deliver(p)
    \/ peer_close
    \/ \E res \in {"Ok", "Err"} : drop_close(res)
    \/ drop_round
    \/ drop_end

\* The dropping thread runs: the socket is non-blocking (lib.rs 136), so a read
\* never waits
SpecDrop == InitDrop /\ [][NextDrop]_vars /\ WF_vars(drop_round) /\ WF_vars(drop_end)

----------------------------------------------------------------------------
\* Properties of the session (checked under Spec, C6 under LiveSpec)

Last(q) == q[Len(q)]

\* The call c ran wait_for's loop
Polled(c) == c.op \in {"wait_for", "wait_event"} \/ (c.op = "send" /\ c.write = "Ok")

\* The messages the call numbered n took from the socket
ReadBy(n) == {i \in 1..Len(readLog) : readLog[i].call = n}

\* C1: the ids written in the request envelopes are 1, 2, ..., N in call order,
\* and the counter is N + 1 after N sends, whatever became of each send.
C1_IdsAreOneToN ==
    /\ \A i \in 1..Len(sentLog) : sentLog[i] = i
    /\ message_id = Len(sentLog) + 1

\* Two sends were made; the first returned no frame and read none (its write
\* failed, or it timed out), the second got its response.
C1_Witness ==
    /\ pc = "idle" /\ sentLog = <<1, 2>> /\ call.op = "send" /\ call.no = 2
    /\ result.kind = "Ok" /\ ReadBy(1) = {}

\* C2: when send returns Ok(frame), the frame is the last message the call read,
\* its id is the id captured for this call, and it has a result and no error; so
\* a response with another id read earlier by the call was not returned.
C2_OkFrameHasAwaitedId ==
    (call.op = "send" /\ result.kind = "Ok") =>
        /\ seen # <<>> /\ Last(seen).enc = "Json" /\ result.val = Last(seen).val
        /\ result.val.idKind = "i64" /\ result.val.id = call.awaited
        /\ result.val.result /\ ~result.val.error

\* The second send reads the late response of the first, then its own
C2_Witness ==
    /\ pc = "idle" /\ call.op = "send" /\ call.awaited = 2 /\ result.kind = "Ok"
    /\ Len(seen) = 2 /\ seen[1].enc = "Json" /\ seen[1].val = Response(1)
    /\ result.val = Response(2)

\* C3: when the frame matched by send carries an error, send returns
\* InvalidRequest holding that frame unchanged, and the request was written once.
C3_ErrorFrameIsInvalidRequest ==
    (/\ call.op = "send" /\ pc = "idle" /\ seen # <<>>
     /\ Last(seen).enc = "Json" /\ Last(seen).val.error
     /\ Last(seen).val.idKind = "i64" /\ Last(seen).val.id = call.awaited) =>
        /\ result.kind = "InvalidRequest" /\ result.val = Last(seen).val
        /\ Cardinality({i \in 1..Len(sentLog) : sentLog[i] = call.awaited}) = 1

C3_Witness ==
    /\ pc = "idle" /\ call.op = "send" /\ call.awaited = 1
    /\ seen # <<>> /\ Last(seen).val = ErrorReply(1) /\ Last(seen).enc = "Json"
    /\ result = InvalidRequest(ErrorReply(1))

\* C4: when the write of the request fails, send returns the network error with
\* the cause of the failure, has read nothing from the socket, and the counter is
\* one past the id of the failed request.
C4_WriteFailureIsNetworkError ==
    (call.op = "send" /\ call.write # "Ok") =>
        /\ pc = "idle" /\ result = NetworkError(call.write)
        /\ seen = <<>> /\ ReadBy(call.no) = {} /\ lastRead = "none"
        /\ message_id = call.awaited + 1

\* A write fails while a message is ready on the socket
C4_Witness ==
    /\ call.op = "send" /\ call.write = "Io" /\ result = NetworkError("Io")
    /\ inbox # <<>> /\ message_id = 2

\* C5: when wait_event returns Ok(frame), the frame is the last message the call
\* read and its method is the awaited name, and every message the call read
\* before it was a JSON document whose method is not that name; and wait_event
\* leaves its loop before the budget is used up, without a frame, only on a
\* message that is no JSON document or on a panic.
IsEvent(m, name) == m.enc = "Json" /\ m.val.mKind = "string" /\ m.val.method = name

C5_FirstMatchingEvent ==
    (call.op = "wait_event" /\ pc = "idle") =>
        /\ result.kind = "Ok" =>
              /\ seen # <<>> /\ result.val = Last(seen).val
              /\ IsEvent(Last(seen), call.event)
              /\ \A i \in 1..(Len(seen) - 1) :
                    seen[i].enc = "Json" /\ ~IsEvent(seen[i], call.event)
        /\ (result.kind # "Ok" /\ elapsed < Budget(call.timeout)) =>
              seen # <<>> /\ Last(seen).enc # "Json"

\* wait_event skips another event, then returns the awaited one
C5_Witness ==
    /\ pc = "idle" /\ call.op = "wait_event" /\ call.event = "Network.dataReceived"
    /\ result.kind = "Ok" /\ Len(seen) = 2
    /\ seen[1].val = Event("Page.loadEventFired")
    /\ result.val = Event("Network.dataReceived")

\* A call whose budget is used up has returned NoMessage
C6_TimedOutIsNoMessage ==
    (pc = "idle" /\ Polled(call) /\ elapsed >= Budget(call.timeout)) =>
        result = NoMessage

\* C6: a call in wait_for's loop returns; a call whose budget is used up has
\* returned NoMessage; the budget is the timeout given (zero included), and 300
\* seconds for send.
C6_WaitForTerminates ==
    /\ [](C6_TimedOutIsNoMessage)
    /\ [](call.op = "send" => Budget(call.timeout) = 300)
    /\ (pc = "polling") ~> (pc = "idle")

\* A wait with budget zero has returned NoMessage
C6_WitnessZero ==
    /\ pc = "idle" /\ call.op = "wait_for" /\ call.timeout = Some(0) /\ result = NoMessage

\* A send has returned NoMessage after 300 seconds without its response
C6_Witness ==
    /\ pc = "idle" /\ call.op = "send" /\ call.write = "Ok" /\ elapsed >= 300
    /\ result = NoMessage

\* C7: a message that is no JSON document, or no UTF-8, ends wait_for's loop at
\* once and the call returns InvalidResponse.
C7_MalformedIsInvalidResponse ==
    (pc = "idle" /\ Polled(call) /\ seen # <<>> /\ Last(seen).enc # "Json") =>
        result = InvalidResponse

\* C8: wait_message returns NoMessage only when read_message found nothing
\* ready, and wait_for does not go on polling after a read that failed because
\* the connection is closed.
C8_ClosedIsNetworkError ==
    /\ (call.op = "wait_message" /\ result.kind = "NoMessage") => lastRead = "WouldBlock"
    /\ (pc = "polling") => lastRead # "ConnectionClosed"

\* C9: the messages are taken from the socket in the order the peer sent them,
\* each once; the socket holds the rest, in order; a message is returned at most
\* once, and only by the call that took it from the socket, as the last message
\* that call took.
C9_InOrderNoBuffer ==
    /\ \A i \in 1..Len(readLog) : readLog[i].sn = i
    /\ \A i \in 1..Len(inbox) : inbox[i].sn = Len(readLog) + i
    /\ Len(readLog) + Len(inbox) = delivered
    /\ \A i \in 1..Len(retLog) :
          /\ retLog[i].sn \in 1..Len(readLog)
          /\ readLog[retLog[i].sn].call = retLog[i].call
          /\ \A j \in 1..Len(readLog) :
                readLog[j].call = retLog[i].call => j <= retLog[i].sn
          /\ \A j \in 1..Len(retLog) : retLog[j].sn = retLog[i].sn => j = i
    /\ (pc = "idle" /\ result.kind \in {"Ok", "InvalidRequest"}) =>
          /\ retLog # <<>> /\ Last(retLog).call = call.no
          /\ seen # <<>> /\ Last(retLog).sn = Last(seen).sn
          /\ result.val = Last(seen).val
    /\ Len(seen) = Cardinality(ReadBy(call.no))

\* The first call took message 1 and dropped it; the second call returned message 2
C9_Witness ==
    /\ pc = "idle" /\ readLog = <<[sn |-> 1, call |-> 1], [sn |-> 2, call |-> 2]>>
    /\ retLog = <<[sn |-> 2, call |-> 2]>>

----------------------------------------------------------------------------
\* Properties of make_connection (checked under SpecConnect)

\* The address a completes the handshake when tried
Completes(a) == net[a].tcp /\ net[a].hs = "Ok"

\* C10: make_connection returns CannotConnect only when no candidate of the list
\* completes the handshake.
C10_FailsOnlyWhenAllFail ==
    (cpc = "failed") => \A i \in 1..Len(addrs) : ~Completes(addrs[i])

\* The candidates are in the order of SocketAddr
Sorted(q) == \A i, j \in 1..Len(q) : i < j => ~AddrLess(q[j], q[i])

\* C11: the candidates are tried one at a time in the sorted order: those tried
\* are the first candidates of the sorted list, each once; when make_connection
\* returns a connection, the candidate tried last completed the handshake, none
\* before it did, none after it was tried, and message_id is 1.
C11_InOrderFirstSuccessEnds ==
    /\ cpc \in {"connect", "handshake", "established", "failed"} /\ wsUrl # <<"", 0>>
          => Sorted(addrs)
    /\ Len(tried) <= Len(addrs) /\ tried = SubSeq(addrs, 1, Len(tried))
    /\ \A k \in 1..Len(opened) : opened[k] \in 1..Len(tried)
    /\ cpc = "established" =>
          /\ pc = "idle" /\ message_id = 1
          /\ tried # <<>> /\ ci = Len(tried) /\ Completes(addrs[ci])
          /\ \A j \in 1..(ci - 1) : ~Completes(addrs[j])
          /\ opened = <<ci>>

\* Three candidates resolved out of order; the first two refuse the connection,
\* the third completes the handshake
C11_Witness ==
    /\ cpc = "established" /\ Len(addrs) = 3 /\ ci = 3 /\ tried = addrs
    /\ addrs = <<<<4, 1>>, <<4, 2>>, <<6, 1>>>>

\* C12: when the url cannot be parsed or resolved, the operation returns
\* CannotConnect, with no candidate tried, and does not panic.
C12_BadUrlIsCannotConnect ==
    (urlIn # "Ok" /\ cpc \notin {"entry", "start"}) =>
        cpc = "failed" /\ tried = <<>>

\* C14: connect_to_tab(i) calls make_connection with the url of the i-th tab of
\* get_tabs, counting from 0; with i out of range it returns InvalidTab and with
\* a failed get_tabs CannotConnect, in both cases without make_connection.
C14_TabByIndex ==
    (entry.op = "connect_to_tab" /\ cpc # "entry") =>
        /\ ~tabs.ok => cpc = "failed" /\ wsUrl = <<"", 0>> /\ tried = <<>>
        /\ (tabs.ok /\ entry.index >= Len(tabs.urls)) =>
              cpc = "invalid_tab" /\ wsUrl = <<"", 0>> /\ tried = <<>>
        /\ (tabs.ok /\ entry.index < Len(tabs.urls)) =>
              cpc # "invalid_tab" /\ wsUrl = tabs.urls[entry.index + 1]

\* Two tabs; connect_to_tab(1) is connected to the second
C14_Witness ==
    /\ entry = [op |-> "connect_to_tab", index |-> 1] /\ Len(tabs.urls) = 2
    /\ cpc = "established" /\ wsUrl = TabUrl(2)

\* C15: while the handshake reports Interrupted it is resumed on the same
\* candidate and the same transport: make_connection leaves the handshake only
\* on the round after the last Interrupted, with the result the handshake ends
\* with, and one transport was opened.
C15_InterruptedIsResumed ==
    /\ cpc = "handshake" =>
          /\ hsCalls <= net[addrs[ci]].interrupts + 1
          /\ opened = <<ci>> /\ Len(tried) = ci
    /\ (cpc \in {"established", "failed"} /\ opened # <<>>) =>
          /\ opened = <<ci>> /\ Len(tried) = ci
          /\ hsCalls = net[addrs[ci]].interrupts + 1
          /\ (cpc = "established") = (net[addrs[ci]].hs = "Ok")

\* A handshake interrupted twice has completed on its third round
C15_Witness ==
    /\ cpc = "established" /\ hsCalls = 3 /\ net[addrs[ci]].interrupts = 2
    /\ opened = <<ci>>

\* C16: while send waits, a message with "result" or "error" whose "id" is
\* absent or is no integer is passed over and the call goes on; send does not
\* unwind on it.
C16_NoIdFrameIsSkipped ==
    (call.op = "send" /\ seen # <<>> /\ Last(seen).enc = "Json"
       /\ (Last(seen).val.result \/ Last(seen).val.error)
       /\ Last(seen).val.idKind # "i64") =>
        result.kind # "Panic"

\* C17: message_id changes only when send is called, and then by one;
\* wait_message, wait_for and wait_event leave it as it is.
C17_OnlySendMovesCounter ==
    [][message_id' # message_id =>
          /\ pc = "idle" /\ call'.op = "send" /\ call'.no = call.no + 1
          /\ message_id' = message_id + 1]_vars

\* After one send, a wait call has taken a message and the counter is still 2
C17_Witness ==
    /\ call.no = 2 /\ call.op \in {"wait_message", "wait_for", "wait_event"}
    /\ pc = "idle" /\ result.kind = "Ok" /\ ReadBy(2) # {}
    /\ Len(sentLog) = 1 /\ message_id = 2

\* C19: wait_for and wait_event with a zero budget return NoMessage without a
\* read: no message leaves the socket while the call runs, so a message that
\* was ready is still the first one the next call reads.
C19_ZeroBudgetReadsNothing ==
    /\ []((Polled(call) /\ call.timeout = Some(0)) =>
             /\ seen = <<>> /\ ReadBy(call.no) = {} /\ lastRead = "none"
             /\ pc = "idle" => result = NoMessage)
    /\ [][(pc = "polling" /\ call.timeout = Some(0)) =>
             /\ Len(inbox') >= Len(inbox)
             /\ SubSeq(inbox', 1, Len(inbox)) = inbox]_vars

\* wait_event with a zero budget has returned NoMessage although the awaited
\* event was ready, and the event is still the first message on the socket
C19_Witness ==
    /\ pc = "idle" /\ call.op = "wait_event" /\ call.timeout = Some(0)
    /\ result = NoMessage
    /\ inbox # <<>> /\ IsEvent(Head(inbox), call.event)

----------------------------------------------------------------------------
\* Properties of drop (checked under SpecDrop)

\* C13: drop makes at most 100 reads, leaves its loop at the first read that
\* reports the connection closed, has made all 100 when it ends otherwise, and
\* a drop in its loop ends.
C13_DropCompletes ==
    /\ [](drainReads <= 100)
    /\ [](dpc = "draining" => lastRead \notin ClosedErrors)
    /\ []((dpc = "dropped" /\ closeRes = "Ok") =>
             (lastRead \in ClosedErrors \/ drainReads = 100))
    /\ (dpc = "draining") ~> (dpc = "dropped")

\* The peer never closed; drop ended after its 100th read
C13_Witness ==
    /\ dpc = "dropped" /\ closeRes = "Ok" /\ ~peerClosed /\ drainReads = 100
    /\ lastRead = "WouldBlock"

\* C18: when close fails, drop ends at once: no read is made and no message is
\* taken from the socket.
C18_CloseFailureNoDrain ==
    (closeRes = "Err") =>
        /\ dpc = "dropped" /\ drainReads = 0 /\ lastRead = "none"
        /\ Len(inbox) = delivered

\* close failed while a message was ready
C18_Witness ==
    /\ closeRes = "Err" /\ dpc = "dropped" /\ inbox # <<>>

====
